---- MODULE Spec2Model ----
(***************************************************************************)
(* Tile boundary layer plugin: the Web Mercator tile arithmetic of         *)
(* tile_boundary_layer_manager.py and the layer lifecycle driven by        *)
(* tile_boundary_layer_plugin.py.                                          *)
(*                                                                         *)
(* Python floats are binary floating point numbers that round every        *)
(* result to the nearest representable value, ties to even.  The model     *)
(* keeps that arithmetic and scales its width: a float is a pair <<m, e>>  *)
(* standing for m * 2^e, with m odd (or <<0, 0>>) and |m| < 2^FloatBits.   *)
(* binary64 has 53 significand bits; the model has FloatBits.  Lengths are *)
(* measured in a unit in which ORIGIN_SHIFT, like the source's constant,   *)
(* is a float that uses every significand bit.                             *)
(***************************************************************************)
EXTENDS Integers, Sequences, FiniteSets, TLC

\* ------------------------------------------------------------ bounds
FloatBits == 5
MaxZoom == 2
Margin == 3
MaxLayers == 3

\* ------------------------------------------------- integer helpers
RECURSIVE Pow2(_)
Pow2(n) == IF n <= 0 THEN 1 ELSE 2 * Pow2(n - 1)

Abs(n) == IF n < 0 THEN -n ELSE n

Sign(n) == IF n < 0 THEN -1 ELSE 1

\* number of binary digits of n >= 0 (0 for 0)
RECURSIVE BitLen(_)
BitLen(n) == IF n <= 0 THEN 0 ELSE 1 + BitLen(n \div 2)

\* ------------------------------------------------- binary floats
\* canonical form of m * 2^e: the significand odd, zero as <<0, 0>>
RECURSIVE Norm(_, _)
Norm(m, e) ==
    IF m = 0 THEN <<0, 0>>
    ELSE IF m % 2 = 0 THEN Norm(m \div 2, e + 1)
    ELSE <<m, e>>

\* n / d (n >= 0, d > 0) rounded to the nearest integer, ties to even
RoundHalfEven(n, d) ==
    LET q == n \div d
        r == n % d
    IN  IF 2 * r > d \/ (2 * r = d /\ q % 2 = 1) THEN q + 1 ELSE q

\* the float nearest to (n / d) * 2^e, for integers n and d > 0
RoundRat(n, d, e) ==
    IF n = 0 THEN <<0, 0>>
    ELSE
      LET a == Abs(n)
          s == FloatBits - (BitLen(a) - BitLen(d))
          \* a * 2^s / d lies in (2^(FloatBits-1), 2^(FloatBits+1))
          num(k) == IF k >= 0 THEN a * Pow2(k) ELSE a
          den(k) == IF k >= 0 THEN d ELSE d * Pow2(-k)
          t == IF num(s) >= den(s) * Pow2(FloatBits) THEN s - 1 ELSE s
          \* now 2^(FloatBits-1) <= a * 2^t / d < 2^FloatBits
          q == RoundHalfEven(num(t), den(t))
      IN  Norm(Sign(n) * q, e - t)

\* the float nearest to the integer n * 2^e
Fl(n, e) == RoundRat(n, 1, e)

FromInt(n) == Fl(n, 0)

\* exact value of a float as an integer multiple of 2^e0 (e0 <= its exponent)
Scaled(a, e0) == a[1] * Pow2(a[2] - e0)

MinExp(a, b) == IF a[2] < b[2] THEN a[2] ELSE b[2]

FAdd(a, b) == Fl(Scaled(a, MinExp(a, b)) + Scaled(b, MinExp(a, b)), MinExp(a, b))

FNeg(a) == <<-a[1], a[2]>>

FSub(a, b) == FAdd(a, FNeg(b))

FMul(a, b) == Fl(a[1] * b[1], a[2] + b[2])

\* b # 0
FDiv(a, b) == RoundRat(Sign(b[1]) * a[1], Abs(b[1]), a[2] - b[2])

FLess(a, b) == Scaled(a, MinExp(a, b)) < Scaled(b, MinExp(a, b))

FLeq(a, b) == Scaled(a, MinExp(a, b)) <= Scaled(b, MinExp(a, b))

\* round-to-nearest in place of int(x)
TruncNearest(a) ==
    IF a[2] >= 0 THEN a[1] * Pow2(a[2])
    ELSE (a[1] + Pow2(-a[2] - 1)) \div Pow2(-a[2])

\* Python int(x): truncation toward zero
Trunc(a) ==
    IF a[2] >= 0 THEN a[1] * Pow2(a[2])
    ELSE Sign(a[1]) * (Abs(a[1]) \div Pow2(-a[2]))

\* mathematical floor of a float
Floor(a) ==
    IF a[2] >= 0 THEN a[1] * Pow2(a[2])
    ELSE IF a[1] >= 0 THEN a[1] \div Pow2(-a[2])
    ELSE -((-a[1] + Pow2(-a[2]) - 1) \div Pow2(-a[2]))

\* ------------------------------------------------ Python results
\* a call either returns a value or raises an exception
Return(v) == [kind |-> "value", val |-> v]

Raise(e) == [kind |-> "error", val |-> e]

\* ------------------------------------------- Web Mercator definitions
\* ORIGIN_SHIFT = 20037508.342789244: a float with a full significand
OriginShiftUnits == Pow2(FloatBits - 1) + Pow2(FloatBits - 3) + 1

ORIGIN_SHIFT == <<OriginShiftUnits, 0>>

TILE_SIZE_XYZ == 256

TILE_SIZE_VECTOR == 512

\* def resolution(z, tile_size): (2 * ORIGIN_SHIFT) / (tile_size * 2 ** z)
\* (2 ** z is an int for z >= 0 and the float 2^z for z < 0: exact)
resolution(z, tile_size) ==
    IF tile_size = 0 THEN Raise("ZeroDivisionError")
    ELSE Return(FDiv(FMul(FromInt(2), ORIGIN_SHIFT), Fl(tile_size, z)))

\* def mercator_to_tile(mx, my, z, tile_size): EPSG:3857 -> tile x, y
mercator_to_tile(mx, my, z, tile_size) ==
    LET r == resolution(z, tile_size) IN
    IF r.kind = "error" THEN r
    ELSE
      LET res == r.val
          px == FDiv(FAdd(mx, ORIGIN_SHIFT), res)
          py == FDiv(FSub(ORIGIN_SHIFT, my), res)
          tx == Trunc(FDiv(px, FromInt(tile_size)))
          ty == Trunc(FDiv(py, FromInt(tile_size)))
      IN  Return(<<tx, ty>>)

\* def tile_bounds(tx, ty, z, tile_size): (minx, miny, maxx, maxy)
tile_bounds(tx, ty, z, tile_size) ==
    LET r == resolution(z, tile_size) IN
    IF r.kind = "error" THEN r
    ELSE
      LET res == r.val
          minx == FSub(FMul(FromInt(tx * tile_size), res), ORIGIN_SHIFT)
          maxx == FSub(FMul(FromInt((tx + 1) * tile_size), res), ORIGIN_SHIFT)
          maxy == FSub(ORIGIN_SHIFT, FMul(FromInt(ty * tile_size), res))
          miny == FSub(ORIGIN_SHIFT, FMul(FromInt((ty + 1) * tile_size), res))
      IN  Return(<<minx, miny, maxx, maxy>>)

\* t <= 2 ** z in place of t < 2 ** z
LessPow2Inclusive(t, z) == IF z >= 0 THEN t <= Pow2(z) ELSE t * Pow2(-z) <= 1

\* t < 2 ** z, exactly (2 ** z is 1 / 2^(-z) for z < 0)
LessPow2(t, z) == IF z >= 0 THEN t < Pow2(z) ELSE t * Pow2(-z) < 1

\* is_valid_tile without the lower bounds
is_valid_tile_upper_only(tx, ty, z) == LessPow2(tx, z) /\ LessPow2(ty, z)

\* def is_valid_tile(tx, ty, z): 0 <= tx < max_tile and 0 <= ty < max_tile
is_valid_tile(tx, ty, z) ==
    0 <= tx /\ LessPow2(tx, z) /\ 0 <= ty /\ LessPow2(ty, z)

\* the float literal 39.37 (inches per metre)
INCHES_PER_METER == RoundRat(3937, 100, 0)

\* round(math.log2(x)) for a float x > 0: log2 is taken exactly, and a
\* rational x never has log2(x) halfway between two integers
RoundLog2(x) ==
    LET m == x[1]
        k == BitLen(m) - 1
    IN  x[2] + k + (IF m * m >= Pow2(2 * k + 1) THEN 1 ELSE 0)

\* the quotient of ZoomRatio inverted
ZoomRatioInverted(pixels) == FDiv(pixels, FMul(FromInt(2), ORIGIN_SHIFT))

\* (2 * ORIGIN_SHIFT) / (tile_size * meters_per_pixel), the argument of log2
ZoomRatio(pixels) == FDiv(FMul(FromInt(2), ORIGIN_SHIFT), pixels)

\* def get_canvas_zoom(iface, tile_size), on canvas.scale() and the logical dpi
get_canvas_zoom(scale, dpi, tile_size) ==
    LET inches == FMul(INCHES_PER_METER, FromInt(dpi)) IN
    IF inches[1] = 0 THEN Raise("ZeroDivisionError")
    ELSE
      LET meters_per_pixel == FDiv(scale, inches)
          pixels == FMul(FromInt(tile_size), meters_per_pixel)
      IN  IF pixels[1] = 0 THEN Raise("ZeroDivisionError")
          ELSE IF ZoomRatio(pixels)[1] <= 0 THEN Raise("ValueError")
          ELSE Return(RoundLog2(ZoomRatio(pixels)))

\* Python sorted([a, b])
sorted(a, b) == IF a <= b THEN <<a, b>> ELSE <<b, a>>

\* the feature create_tile_layer builds for one tile: attributes and polygon box
Feature(tx, ty, zoom_level, tile_size) ==
    [z |-> zoom_level, x |-> tx, y |-> ty,
     box |-> tile_bounds(tx, ty, zoom_level, tile_size).val]

\* the loops over range(tx0 + 1, tx1 + 1) and range(ty0 + 1, ty1 + 1)
RangeCellsAfterFirst(tx0, tx1, ty0, ty1) ==
    [i \in 1..((tx1 - tx0) * (ty1 - ty0)) |->
        <<tx0 + 1 + ((i - 1) \div (ty1 - ty0)), ty0 + 1 + ((i - 1) % (ty1 - ty0))>>]

\* for tx in range(tx0, tx1 + 1): for ty in range(ty0, ty1 + 1): the
\* (tx, ty) pairs in loop order
RangeCells(tx0, tx1, ty0, ty1) ==
    [i \in 1..((tx1 - tx0 + 1) * (ty1 - ty0 + 1)) |->
        <<tx0 + ((i - 1) \div (ty1 - ty0 + 1)), ty0 + ((i - 1) % (ty1 - ty0 + 1))>>]

\* Features over range(tx0, tx1) and range(ty0, ty1)
FeaturesBeforeLast(tx0, tx1, ty0, ty1, zoom_level, tile_size) ==
    LET valid(c) == is_valid_tile(c[1], c[2], zoom_level)
        kept == SelectSeq(RangeCells(tx0, tx1 - 1, ty0, ty1 - 1), valid)
    IN  [i \in 1..Len(kept) |-> Feature(kept[i][1], kept[i][2], zoom_level, tile_size)]

\* the loop body: skip the invalid tiles, append a feature for the others
Features(tx0, tx1, ty0, ty1, zoom_level, tile_size) ==
    LET valid(c) == is_valid_tile(c[1], c[2], zoom_level)
        kept == SelectSeq(RangeCells(tx0, tx1, ty0, ty1), valid)
    IN  [i \in 1..Len(kept) |-> Feature(kept[i][1], kept[i][2], zoom_level, tile_size)]

\* tx0, tx1 = sorted([min_tx, max_tx]); ty0, ty1 = sorted([min_ty, max_ty])
\* with lo = (min_tx, max_ty) and hi = (max_tx, min_ty)
RangeFeatures(lo, hi, zoom_level, tile_size) ==
    Features(sorted(lo[1], hi[1])[1], sorted(lo[1], hi[1])[2],
             sorted(hi[2], lo[2])[1], sorted(hi[2], lo[2])[2],
             zoom_level, tile_size)

\* def create_tile_layer(self, zoom_level), on the canvas extent in EPSG:3857
\* ext = <<minx, miny, maxx, maxy>> and self.tile_size (256 or 512)
create_tile_layer(ext, zoom_level, tile_size) ==
    [name |-> "tile_boundary",
     features |->
        RangeFeatures(mercator_to_tile(ext[1], ext[2], zoom_level, tile_size).val,
                      mercator_to_tile(ext[3], ext[4], zoom_level, tile_size).val,
                      zoom_level, tile_size)]

\* --------------------------------------------------------- inputs
\* zoom levels offered to the functions; -1 is what get_canvas_zoom returns
\* for a canvas zoomed out beyond the world
Zooms == (-1)..MaxZoom

TileSizes == {TILE_SIZE_XYZ, TILE_SIZE_VECTOR}

\* tile sizes a caller of the module functions can pass, valid or not
AnyTileSizes == TileSizes \cup {0, -TILE_SIZE_XYZ}

TileIndexes == (-1)..(Pow2(MaxZoom) + 1)

MaxCoord == OriginShiftUnits + Margin

Coords == {FromInt(k) : k \in (-MaxCoord)..MaxCoord}

\* centre of a box, as a caller computes it: (min + max) / 2
CentreX(b) == FDiv(FAdd(b[1], b[3]), FromInt(2))

CentreY(b) == FDiv(FAdd(b[2], b[4]), FromInt(2))

ValidTiles(z) == {t \in TileIndexes \X TileIndexes : is_valid_tile(t[1], t[2], z)}

\* the boxes tile_bounds returns for the valid tiles of a zoom level
TileBoxes(z, ts) == {tile_bounds(t[1], t[2], z, ts).val : t \in ValidTiles(z)}

\* viewport corners: a coarse grid across the world and its margin
ViewCoords ==
    {FromInt(k) : k \in {-MaxCoord, -OriginShiftUnits, -(OriginShiftUnits \div 2) - 1,
                         0, OriginShiftUnits \div 3,
                         OriginShiftUnits, MaxCoord}}

\* projected points offered to mercator_to_tile: every x against a few y,
\* every y against a few x, and the centres of the tile boxes
Points(z, ts) ==
    IF ts \in TileSizes
    THEN (Coords \X ViewCoords) \cup (ViewCoords \X Coords)
            \cup {<<CentreX(b), CentreY(b)>> : b \in TileBoxes(z, ts)}
    ELSE ViewCoords \X ViewCoords

\* viewports <<minx, miny, maxx, maxy>> with min <= max, zero-area ones included
ViewExtents ==
    {e \in ViewCoords \X ViewCoords \X ViewCoords \X ViewCoords :
        FLeq(e[1], e[3]) /\ FLeq(e[2], e[4])}

WorldExtent == <<FNeg(ORIGIN_SHIFT), FNeg(ORIGIN_SHIFT), ORIGIN_SHIFT, ORIGIN_SHIFT>>

Extents(z, ts) == ViewExtents \cup TileBoxes(z, ts)

ScaleExps == 2..(MaxZoom + 5)

\* canvas scales: every float of each binade
Scales == {Norm(m, e) : m \in Pow2(FloatBits - 1)..(Pow2(FloatBits) - 1), e \in ScaleExps}

Dpis == {96, 120}

\* canvas states of the plugin session: a few extents and scales
CanvasExtents ==
    {WorldExtent,
     <<FromInt(0), FromInt(0), FromInt(0), FromInt(0)>>,
     <<FromInt(0), FromInt(0), ORIGIN_SHIFT, ORIGIN_SHIFT>>,
     <<FromInt(-MaxCoord), FromInt(-(OriginShiftUnits \div 2) - 1),
       FromInt(OriginShiftUnits \div 3), FromInt(MaxCoord)>>,
     <<FromInt(-MaxCoord), FromInt(-MaxCoord),
       FNeg(ORIGIN_SHIFT), FNeg(ORIGIN_SHIFT)>>}

\* scales at which get_canvas_zoom gives the zoom levels -1 .. FloatBits - 3
CanvasScales == {<<1, e>> : e \in (FloatBits + 2)..(FloatBits + 5)}

VARIABLES
    call,        \* a call of a module function: its name and arguments
    result,      \* what the call returned or raised, Pending before it ran
    manager,     \* TileBoundaryLayerPlugin.manager: None or the manager object
    connected,   \* canvas signals connected to the manager's update_tile_layer
    project,     \* QgsProject: tile boundary layers by object identity
    created,     \* number of layer objects created so far
    extent,      \* canvas extent in EPSG:3857, <<minx, miny, maxx, maxy>>
    scale,       \* canvas.scale()
    dpi,         \* iface.mainWindow().logicalDpiX(), 96 when it fails
    actions,     \* TileBoundaryLayerPlugin.actions
    checked      \* toggle_action.isChecked()

calcVars == <<call, result>>

pluginVars == <<manager, connected, project, created, extent, scale, dpi,
                actions, checked>>

vars == <<call, result, manager, connected, project, created, extent, scale,
          dpi, actions, checked>>

\* a Python reference that may be None: the empty set, or the set of the
\* one object it refers to
None == {}

Some(x) == {x}

The(ref) == CHOOSE x \in ref : TRUE

Signals == {"extentsChanged", "scaleChanged"}

\* TileBoundaryLayerPlugin.__init__, on a canvas in some state
PluginInit ==
    /\ manager = None
    /\ connected = {}
    /\ project = <<>>
    /\ created = 0
    /\ extent \in CanvasExtents
    /\ scale \in CanvasScales
    /\ dpi \in Dpis
    /\ actions = <<>>
    /\ checked = FALSE

\* ------------------------------------------ calls of the module functions
\* a call is drawn with its arguments; its action runs it to its result
Pending == [kind |-> "pending"]

NoCall == [op |-> "none"]

ResolutionCalls ==
    {[op |-> "resolution", z |-> z, tile_size |-> ts] :
        z \in Zooms, ts \in AnyTileSizes}

MercatorToTileCalls ==
    UNION {{[op |-> "mercator_to_tile", mx |-> pt[1], my |-> pt[2],
             z |-> zt[1], tile_size |-> zt[2]] : pt \in Points(zt[1], zt[2])} :
           zt \in Zooms \X AnyTileSizes}

TileBoundsCalls ==
    {[op |-> "tile_bounds", tx |-> tx, ty |-> ty, z |-> z, tile_size |-> ts] :
        tx \in TileIndexes, ty \in TileIndexes, z \in Zooms, ts \in AnyTileSizes}

IsValidTileCalls ==
    {[op |-> "is_valid_tile", tx |-> tx, ty |-> ty, z |-> z] :
        tx \in TileIndexes, ty \in TileIndexes, z \in Zooms}

GetCanvasZoomCalls ==
    {[op |-> "get_canvas_zoom", scale |-> s, dpi |-> d, tile_size |-> ts] :
        s \in Scales, d \in Dpis, ts \in AnyTileSizes}

CreateTileLayerCalls ==
    UNION {{[op |-> "create_tile_layer", extent |-> ext,
             z |-> zt[1], tile_size |-> zt[2]] : ext \in Extents(zt[1], zt[2])} :
           zt \in Zooms \X TileSizes}

CallResolution ==
    /\ call.op = "resolution" /\ result = Pending
    /\ result' = resolution(call.z, call.tile_size)
    /\ UNCHANGED call
    /\ UNCHANGED pluginVars

CallMercatorToTile ==
    /\ call.op = "mercator_to_tile" /\ result = Pending
    /\ result' = mercator_to_tile(call.mx, call.my, call.z, call.tile_size)
    /\ UNCHANGED call
    /\ UNCHANGED pluginVars

CallTileBounds ==
    /\ call.op = "tile_bounds" /\ result = Pending
    /\ result' = tile_bounds(call.tx, call.ty, call.z, call.tile_size)
    /\ UNCHANGED call
    /\ UNCHANGED pluginVars

CallIsValidTile ==
    /\ call.op = "is_valid_tile" /\ result = Pending
    /\ result' = Return(is_valid_tile(call.tx, call.ty, call.z))
    /\ UNCHANGED call
    /\ UNCHANGED pluginVars

CallGetCanvasZoom ==
    /\ call.op = "get_canvas_zoom" /\ result = Pending
    /\ result' = get_canvas_zoom(call.scale, call.dpi, call.tile_size)
    /\ UNCHANGED call
    /\ UNCHANGED pluginVars

CallCreateTileLayer ==
    /\ call.op = "create_tile_layer" /\ result = Pending
    /\ result' = Return(create_tile_layer(call.extent, call.z, call.tile_size))
    /\ UNCHANGED call
    /\ UNCHANGED pluginVars

InitCalc ==
    /\ call \in ResolutionCalls \cup MercatorToTileCalls \cup TileBoundsCalls
                  \cup IsValidTileCalls \cup GetCanvasZoomCalls
                  \cup CreateTileLayerCalls
    /\ result = Pending
    /\ manager = None /\ connected = {} /\ project = <<>> /\ created = 0
    /\ extent = WorldExtent /\ scale = <<1, FloatBits + 2>> /\ dpi = 96
    /\ actions = <<>> /\ checked = FALSE

NextCalc ==
    \/ CallResolution
    \/ CallMercatorToTile
    \/ CallTileBounds
    \/ CallIsValidTile
    \/ CallGetCanvasZoom
    \/ CallCreateTileLayer

SpecCalc == InitCalc /\ [][NextCalc]_vars

\* ---------------------------------------- TileBoundaryLayerManager
\* disconnect_signals that disconnects nothing
disconnect_signals_nothing(conn) == conn

\* def disconnect_signals(self): the first disconnect that fails raises, and
\* the bare except skips what is left
disconnect_signals(conn) ==
    IF "extentsChanged" \notin conn THEN conn
    ELSE IF "scaleChanged" \notin conn THEN conn \ {"extentsChanged"}
    ELSE conn \ Signals

\* a project without one layer
RemoveMapLayer(proj, id) == [i \in DOMAIN proj \ {id} |-> proj[i]]

\* remove_current_layer that leaves the layer in the project
remove_current_layer_kept(m, proj) == proj

\* def remove_current_layer(self): the project it leaves.  A layer deleted
\* from the project is a deleted C++ object: isValid() raises RuntimeError,
\* which is caught
remove_current_layer(m, proj) ==
    IF m.current_layer # None /\ The(m.current_layer) \in DOMAIN proj
    THEN RemoveMapLayer(proj, The(m.current_layer))
    ELSE proj

\* QgsProject.instance().addMapLayer(layer), the layer a new object id
AddMapLayer(proj, id, layer) ==
    [i \in DOMAIN proj \cup {id} |-> IF i = id THEN layer ELSE proj[i]]

\* current_zoom of update_tile_layer
current_zoom(m) ==
    IF m.zoom_setting = None THEN get_canvas_zoom(scale, dpi, m.tile_size)
    ELSE Return(The(m.zoom_setting))

\* def update_tile_layer(self): the project after it, the new layer being
\* object created + 1
update_tile_layer(m, proj) ==
    AddMapLayer(remove_current_layer(m, proj), created + 1,
                create_tile_layer(extent, current_zoom(m).val, m.tile_size))

\* TileBoundaryLayerManager.__init__ up to the initial update_tile_layer
NewManager(is_vector_tile) ==
    [current_layer |-> None,
     zoom_setting |-> None,
     is_vector_tile |-> is_vector_tile,
     tile_size |-> IF is_vector_tile THEN TILE_SIZE_VECTOR ELSE TILE_SIZE_XYZ]

\* update_tile_layer as a step of the program, run on manager m
RunUpdate(m) ==
    IF current_zoom(m).kind = "error"
    THEN \* the exception leaves the handler before anything is removed
         /\ manager' = manager
         /\ UNCHANGED <<project, created>>
    ELSE /\ created < MaxLayers
         /\ project' = update_tile_layer(m, project)
         /\ created' = created + 1
         /\ manager' = Some([m EXCEPT !.current_layer = Some(created + 1)])

\* ------------------------------------------- TileBoundaryLayerPlugin
\* def initGui(self)
InitGui ==
    /\ actions = <<>>
    /\ actions' = <<"toggle_action">>
    /\ checked' = FALSE
    /\ UNCHANGED <<manager, connected, project, created, extent, scale, dpi>>
    /\ UNCHANGED calcVars

\* def toggle_tile_layer(self), no manager, a tile type chosen in the dialog
ToggleOn ==
    \E is_vector_tile \in BOOLEAN :
        /\ actions # <<>>
        /\ manager = None
        /\ IF current_zoom(NewManager(is_vector_tile)).kind = "error"
           THEN \* __init__ raises: the manager is never assigned, and the
                \* unreferenced QObject goes with its connections
                /\ UNCHANGED <<manager, connected, project, created>>
                /\ checked' = ~checked
           ELSE /\ connected' = connected \cup Signals
                /\ RunUpdate(NewManager(is_vector_tile))
                /\ checked' = TRUE
        /\ UNCHANGED <<extent, scale, dpi, actions>>
        /\ UNCHANGED calcVars

\* def toggle_tile_layer(self), no manager, the dialog cancelled
ToggleCancel ==
    /\ actions # <<>>
    /\ manager = None
    /\ checked' = FALSE
    /\ UNCHANGED <<manager, connected, project, created, extent, scale, dpi,
                   actions>>
    /\ UNCHANGED calcVars

\* the cleanup toggle_tile_layer and unload share: disconnect_signals,
\* remove_current_layer, manager = None
StopManager ==
    /\ connected' = disconnect_signals(connected)
    /\ project' = remove_current_layer(The(manager), project)
    /\ manager' = None

\* def toggle_tile_layer(self), with a manager
ToggleOff ==
    /\ actions # <<>>
    /\ manager # None
    /\ StopManager
    /\ checked' = FALSE
    /\ UNCHANGED <<created, extent, scale, dpi, actions>>
    /\ UNCHANGED calcVars

\* def unload(self)
Unload ==
    /\ actions # <<>>
    /\ IF manager # None THEN StopManager
       ELSE UNCHANGED <<manager, connected, project>>
    /\ actions' = <<>>
    /\ UNCHANGED <<created, extent, scale, dpi, checked>>
    /\ UNCHANGED calcVars

\* ------------------------------------------------- the map canvas
\* a signal of the canvas: update_tile_layer runs when it is connected.  The
\* slot is a method of the manager the plugin refers to; a manager the plugin
\* dropped is a destroyed QObject and receives nothing
Emit(signal) ==
    IF signal \in connected /\ manager # None THEN RunUpdate(The(manager))
    ELSE UNCHANGED <<manager, project, created>>

\* the user pans or resizes the map: canvas.extentsChanged
ExtentsChanged ==
    \E e \in CanvasExtents \ {extent} :
        /\ extent' = e
        /\ Emit("extentsChanged")
        /\ UNCHANGED <<connected, scale, dpi, actions, checked>>
        /\ UNCHANGED calcVars

\* the user zooms: canvas.scaleChanged
ScaleChanged ==
    \E s \in CanvasScales \ {scale} :
        /\ scale' = s
        /\ Emit("scaleChanged")
        /\ UNCHANGED <<connected, extent, dpi, actions, checked>>
        /\ UNCHANGED calcVars

\* the user deletes the tile boundary layer in the layer panel
LayerDeleted ==
    \E id \in DOMAIN project :
        /\ project' = RemoveMapLayer(project, id)
        /\ UNCHANGED <<manager, connected, created, extent, scale, dpi,
                       actions, checked>>
        /\ UNCHANGED calcVars

Init == call = NoCall /\ result = Pending /\ PluginInit

Next ==
    \/ InitGui
    \/ ToggleOn
    \/ ToggleCancel
    \/ ToggleOff
    \/ Unload
    \/ ExtentsChanged
    \/ ScaleChanged
    \/ LayerDeleted

Spec == Init /\ [][Next]_vars

\* ------------------------------------------------------ claims: helpers
Returned(op) == call.op = op /\ result.kind = "value"

\* the (tx, ty) pairs of a layer's features, in order
Tiles(layer) == [i \in 1..Len(layer.features) |->
                   <<layer.features[i].x, layer.features[i].y>>]

\* 0 <= tx, ty < 2^z, for z >= 0
InGrid(t, z) == t[1] \in 0..(Pow2(z) - 1) /\ t[2] \in 0..(Pow2(z) - 1)

GridTiles(z) == (0..(Pow2(z) - 1)) \X (0..(Pow2(z) - 1))

Count(seq, t) == Cardinality({i \in 1..Len(seq) : seq[i] = t})

Near(t, u) == Abs(t[1] - u[1]) <= 1 /\ Abs(t[2] - u[2]) <= 1

\* zoom levels at which a tile still spans several float spacings at the
\* magnitude of ORIGIN_SHIFT (z <= 50 for the 53 bits of binary64)
WithinPrecision(z) == z <= FloatBits - 3

\* tile_bounds of every valid tile, tabulated
BoxOf == [z \in 0..MaxZoom, ts \in TileSizes |->
            [t \in GridTiles(z) |-> tile_bounds(t[1], t[2], z, ts).val]]

StrictlyInside(x, y, b) ==
    FLess(b[1], x) /\ FLess(x, b[3]) /\ FLess(b[2], y) /\ FLess(y, b[4])

\* C1: the tile grid of the full world extent at zoom z >= 0 holds exactly
\* 2^z * 2^z tiles: every (tx, ty) with 0 <= tx, ty < 2^z once, and no other.
C1_WorldGrid ==
    (Returned("create_tile_layer") /\ call.extent = WorldExtent /\ call.z >= 0) =>
        LET tiles == Tiles(result.val) IN
        /\ Len(tiles) = Pow2(call.z) * Pow2(call.z)
        /\ \A t \in GridTiles(call.z) : Count(tiles, t) = 1
        /\ \A i \in 1..Len(tiles) : InGrid(tiles[i], call.z)

C1_Witness ==
    /\ Returned("create_tile_layer") /\ call.extent = WorldExtent
    /\ call.z = MaxZoom /\ call.tile_size = TILE_SIZE_VECTOR
    /\ Len(result.val.features) = Pow2(MaxZoom) * Pow2(MaxZoom)

\* C2 as stated: the tile grid of a viewport that is exactly the box
\* tile_bounds returns for a valid tile holds that one tile and no other.
C2_ExactlyOneTile ==
    (Returned("create_tile_layer") /\ call.z >= 0) =>
        \A t \in GridTiles(call.z) :
            call.extent = BoxOf[call.z, call.tile_size][t]
                => Tiles(result.val) = <<t>>

\* C2 amended: that grid holds the tile (tx, ty) exactly once, and every other
\* tile in it is a valid tile at most one column and one row away.
C2_TileAndNeighbours ==
    (Returned("create_tile_layer") /\ call.z >= 0 /\ WithinPrecision(call.z)) =>
        \A t \in GridTiles(call.z) :
            call.extent = BoxOf[call.z, call.tile_size][t] =>
                LET tiles == Tiles(result.val) IN
                /\ Count(tiles, t) = 1
                /\ \A i \in 1..Len(tiles) :
                      Near(tiles[i], t) /\ InGrid(tiles[i], call.z)

C2_Witness ==
    /\ Returned("create_tile_layer") /\ call.z = MaxZoom
    /\ call.extent = BoxOf[MaxZoom, call.tile_size][<<0, 0>>]
    /\ Len(result.val.features) > 1
    /\ Count(Tiles(result.val), <<0, 0>>) = 1

ZeroArea(e) == e[1] = e[3] \/ e[2] = e[4]

\* C3 as stated: the tile grid of a zero-area viewport is the empty sequence.
C3_DegenerateEmpty ==
    (call.op = "create_tile_layer" /\ result # Pending
        /\ call.z >= 0 /\ ZeroArea(call.extent)) =>
        result.kind = "value" /\ result.val.features = <<>>

\* C3 amended: for a zero-area viewport no error is raised; with minX = maxX
\* every tile of the grid is in one column, with minY = maxY in one row, and
\* for a single point the grid is the one tile mercator_to_tile returns for
\* the point when that tile is valid, and empty otherwise.
C3_DegenerateGrid ==
    (call.op = "create_tile_layer" /\ result # Pending
        /\ call.z >= 0 /\ ZeroArea(call.extent)) =>
        /\ result.kind = "value"
        /\ LET tiles == Tiles(result.val)
               t == mercator_to_tile(call.extent[1], call.extent[2],
                                     call.z, call.tile_size).val
           IN  /\ call.extent[1] = call.extent[3] =>
                    \A i \in 1..Len(tiles) : tiles[i][1] = tiles[1][1]
               /\ call.extent[2] = call.extent[4] =>
                    \A i \in 1..Len(tiles) : tiles[i][2] = tiles[1][2]
               /\ (call.extent[1] = call.extent[3]
                      /\ call.extent[2] = call.extent[4]) =>
                    tiles = IF InGrid(t, call.z) THEN <<t>> ELSE <<>>

C3_Witness ==
    /\ Returned("create_tile_layer") /\ call.z = MaxZoom
    /\ call.extent = <<FromInt(0), FromInt(0), FromInt(0), FromInt(0)>>
    /\ Len(result.val.features) = 1

\* the calls C4 is about: tile size <= 0 or zoom < 0
InvalidArguments ==
    \/ /\ call.op \in {"resolution", "mercator_to_tile", "tile_bounds",
                       "create_tile_layer"}
       /\ (call.tile_size <= 0 \/ call.z < 0)
    \/ call.op = "is_valid_tile" /\ call.z < 0

\* C4: a call with tile size <= 0 or zoom < 0 ends in an error, never in a
\* tile index, a bounding box, a boolean or a tile list.
C4_InvalidArgumentsRejected ==
    (InvalidArguments /\ result # Pending) => result.kind = "error"

\* exact floor((offset) / tileWidth) for a point coordinate c: the column of
\* x is ExactCell(x + ORIGIN_SHIFT), the row of y is ExactCell(ORIGIN_SHIFT - y);
\* tileWidth = 2 * ORIGIN_SHIFT / 2^z, and offsets are counted in units of 2^e0
ExactColumn(x, z) ==
    LET e0 == IF x[2] < 0 THEN x[2] ELSE 0 IN
    ((Scaled(x, e0) + Scaled(ORIGIN_SHIFT, e0)) * Pow2(z))
        \div (2 * Scaled(ORIGIN_SHIFT, e0))

ExactRow(y, z) ==
    LET e0 == IF y[2] < 0 THEN y[2] ELSE 0 IN
    ((Scaled(ORIGIN_SHIFT, e0) - Scaled(y, e0)) * Pow2(z))
        \div (2 * Scaled(ORIGIN_SHIFT, e0))

\* C5 as stated: mercator_to_tile of the centre of a valid tile's box, and of
\* every point strictly inside the box, is that tile.
C5_RoundTripInside ==
    (Returned("mercator_to_tile") /\ call.z >= 0 /\ call.tile_size \in TileSizes) =>
        \A t \in GridTiles(call.z) :
            LET b == BoxOf[call.z, call.tile_size][t] IN
            ((call.mx = CentreX(b) /\ call.my = CentreY(b))
                \/ StrictlyInside(call.mx, call.my, b)) => result.val = t

\* C5 amended: mercator_to_tile of the centre of the box is that tile; of a
\* point strictly inside the box it is that tile or, within rounding distance
\* of an edge, one at most one column and one row away.
C5_RoundTripCentre ==
    (Returned("mercator_to_tile") /\ call.z >= 0 /\ WithinPrecision(call.z)
        /\ call.tile_size \in TileSizes) =>
        \A t \in GridTiles(call.z) :
            LET b == BoxOf[call.z, call.tile_size][t] IN
            /\ (call.mx = CentreX(b) /\ call.my = CentreY(b)) => result.val = t
            /\ StrictlyInside(call.mx, call.my, b) => Near(result.val, t)

C5_Witness ==
    /\ Returned("mercator_to_tile") /\ call.z = MaxZoom
    /\ call.tile_size = TILE_SIZE_XYZ
    /\ LET b == tile_bounds(Pow2(MaxZoom) - 1, 1, MaxZoom, TILE_SIZE_XYZ).val
       IN  call.mx = CentreX(b) /\ call.my = CentreY(b)
    /\ result.val = <<Pow2(MaxZoom) - 1, 1>>

\* C6: mercator_to_tile returns the floor of the exact quotients, so a point
\* outside the world never gets a column or row in [0, 2^z).
C6_FloorOfQuotient ==
    (Returned("mercator_to_tile") /\ call.z >= 0 /\ call.tile_size \in TileSizes) =>
        /\ result.val = <<ExactColumn(call.mx, call.z), ExactRow(call.my, call.z)>>
        /\ FLess(call.mx, FNeg(ORIGIN_SHIFT)) => result.val[1] \notin 0..(Pow2(call.z) - 1)
        /\ FLess(ORIGIN_SHIFT, call.my) => result.val[2] \notin 0..(Pow2(call.z) - 1)

\* C7: is_valid_tile(tx, ty, z) is true exactly when 0 <= tx, ty < 2^z, and
\* every tile of a computed grid is in that range.
C7_ValidRange ==
    /\ (Returned("is_valid_tile") /\ call.z >= 0) =>
          (result.val <=> InGrid(<<call.tx, call.ty>>, call.z))
    /\ (Returned("create_tile_layer") /\ call.z >= 0) =>
          \A i \in 1..Len(result.val.features) :
              InGrid(<<result.val.features[i].x, result.val.features[i].y>>, call.z)

C7_Witness ==
    /\ Returned("create_tile_layer") /\ call.z = MaxZoom
    /\ call.extent = <<FromInt(-MaxCoord), FromInt(-MaxCoord),
                       FromInt(MaxCoord), FromInt(MaxCoord)>>
    /\ Len(result.val.features) = Pow2(MaxZoom) * Pow2(MaxZoom)

\* C8: for a fixed dpi and tile size the estimated zoom never increases with
\* the scale: a larger scale gives a zoom that is at most as large.
C8_ZoomMonotone ==
    (Returned("get_canvas_zoom") /\ call.tile_size \in TileSizes) =>
        \A s \in Scales :
            LET z2 == get_canvas_zoom(s, call.dpi, call.tile_size) IN
            /\ FLess(call.scale, s) => (z2.kind = "value" /\ z2.val <= result.val)
            /\ FLess(s, call.scale) => (z2.kind = "value" /\ z2.val >= result.val)

C8_Witness ==
    /\ Returned("get_canvas_zoom") /\ call.tile_size = TILE_SIZE_XYZ
    /\ result.val = MaxZoom
    /\ \E s \in Scales :
          /\ FLess(call.scale, s)
          /\ get_canvas_zoom(s, call.dpi, call.tile_size).val < 0

\* C9: at every moment the project holds at most one tile boundary layer, and
\* it is the current_layer of the manager; and when update_tile_layer has
\* completed, the project holds exactly the layer it created, which is
\* current_layer, the one before having been removed.
C9_SingleCurrentLayer ==
    /\ [](/\ Cardinality(DOMAIN project) <= 1
          /\ manager # None => DOMAIN project \subseteq The(manager).current_layer)
    /\ [][created' # created =>
            /\ manager' # None
            /\ The(manager').current_layer = Some(created')
            /\ DOMAIN project' = {created'}]_vars

C9_Witness ==
    /\ manager # None
    /\ created >= 2
    /\ The(manager).current_layer = Some(created)
    /\ DOMAIN project = {created}

\* C10: while the plugin has no manager, the project holds no tile boundary
\* layer and no canvas signal is connected; and a step that starts and ends
\* without a manager creates no layer and adds none to the project.
C10_StoppedStaysStopped ==
    /\ [](manager = None => (project = <<>> /\ connected = {}))
    /\ [][(manager = None /\ manager' = None) =>
            (created' = created /\ project' = <<>>)]_vars

C10_Witness ==
    /\ manager = None
    /\ created >= 1
    /\ connected = {}
    /\ project = <<>>
    /\ actions # <<>>
====
